---- MODULE Spec2Model ----
(***************************************************************************)
(* The OpenBank mock ledger (openbankapi/src/main.rs): three HashMaps,     *)
(* each behind its own std::sync::RwLock, mutated by axum handlers that    *)
(* run concurrently.  A handler is a sequence of lock scopes; every scope  *)
(* is two steps here, the acquisition of the lock and the body that ends   *)
(* with its release, so all interleavings of the scopes of concurrent      *)
(* handlers are behaviours of the model.                                   *)
(*                                                                         *)
(* Amounts are f64 in the source; the model uses small integers, on which  *)
(* f64 addition is exact.  Fields no handler ever reads again (name,       *)
(* created_at, timestamp, description, is_active) are left out.            *)
(* Uuid::new_v4() is modelled as a fresh identifier: the next unused       *)
(* number.  A request names an identifier the store has disclosed to a     *)
(* client, or one that names nothing.                                      *)
(*                                                                         *)
(* The settlement client (openbankapi/src/contract.rs) is modelled by what *)
(* its calls return to the handler: the outcome of a send is chosen by the *)
(* environment, and the history variable call keeps, for each handler, how *)
(* often it called send_usdt_to_address and what the call returned.        *)
(***************************************************************************)
EXTENDS Integers, Sequences, FiniteSets, TLC

\* ------------------------------------------------------------ bounds
\* requests that draw an identifier (create_user, create_account, deposit)
MaxRequests == 4
MaxAmount == 2
\* the largest amount of the conversion inputs, in tenths of a minor unit
MaxTenths == 25

\* the request handlers that run concurrently
Workers == {1, 2}
AccountIds == 1..MaxRequests
\* identifiers a client may send that name nothing in the store
BogusUserId == MaxRequests + 1
BogusAccountId == MaxRequests + 1
\* DepositRequest.amount / WithdrawRequest.amount
Amounts == -1..MaxAmount
Emails == {"alice@example.com", "bob@example.com"}
\* CreateAccountRequest.currency
Currencies == {"USD"}

\* A wallet address string, by the properties the code looks at: its prefix
\* and length (create_user) and whether it is hexadecimal (parse::<Address>).
WalletOk == [prefix |-> "0x", len |-> 42, hex |-> TRUE]
WalletNotHex == [prefix |-> "0x", len |-> 42, hex |-> FALSE]
WalletShort == [prefix |-> "0x", len |-> 40, hex |-> TRUE]
WalletStrings == {WalletOk, WalletNotHex, WalletShort}
\* Option<String>: the empty set is None, {s} is Some(s)
WalletOptions == {{}} \cup {{s} : s \in WalletStrings}

\* ------------------------------------------------------------ helpers
Range(s) == {s[i] : i \in DOMAIN s}

EmptyMap == [k \in {} |-> 0]

\* HashMap::insert
MapInsert(m, k, v) == [x \in DOMAIN m \cup {k} |-> IF x = k THEN v ELSE m[x]]

RECURSIVE SumAmounts(_)
SumAmounts(s) == IF s = <<>> THEN 0 ELSE s[1].amount + SumAmounts(Tail(s))

\* ------------------------------------------------------------ state
VARIABLES
    users,              \* AppState.users: user id -> User
    accounts,           \* AppState.accounts: account id -> Account
    transactions,       \* AppState.transactions: account id -> Vec<Transaction>
    usersLock,          \* the RwLock around users
    accountsLock,       \* the RwLock around accounts
    transactionsLock,   \* the RwLock around transactions
    pc,                 \* where each request handler stands
    req,                \* the request each handler serves
    loc,                \* the handler's local variables
    resp,               \* the handler's result
    nextUser,           \* identifiers Uuid::new_v4() has handed out
    nextAccount,
    nextTxn,
    acked,              \* history: per account, the amounts of the deposits answered Ok
    call                \* history: each handler's use of the settlement client

store == <<users, accounts, transactions>>
locks == <<usersLock, accountsLock, transactionsLock>>
ids == <<nextUser, nextAccount, nextTxn>>
vars == <<users, accounts, transactions, usersLock, accountsLock, transactionsLock,
          pc, req, loc, resp, nextUser, nextAccount, nextTxn, acked, call>>

\* ------------------------------------------------------------ RwLock
NoWorker == 0
Unlocked == [writer |-> NoWorker, readers |-> {}]

\* RwLock::read returns once no writer holds the lock
CanRead(l) == l.writer = NoWorker
\* RwLock::write returns once nobody holds the lock
CanWrite(l) == l.writer = NoWorker /\ l.readers = {}
ReadLocked(l, w) == [l EXCEPT !.readers = @ \cup {w}]
WriteLocked(l, w) == [l EXCEPT !.writer = w]
\* the guard is dropped at the end of its scope
ReadReleased(l, w) == [l EXCEPT !.readers = @ \ {w}]
\* a write guard that outlives its scope
WriteKept(l, w) == l
WriteReleased(l, w) == [l EXCEPT !.writer = NoWorker]

\* ------------------------------------------------------------ handlers' frame
NoReq == [op |-> "none", email |-> "", wallet_address |-> {}, user_id |-> 0,
          account_id |-> 0, amount |-> 0, currency |-> ""]
NoLoc == [id |-> 0, balance_after |-> 0, user_id |-> 0, wallet_address |-> {},
          amount_usdt |-> 0]
NoResp == [kind |-> "none", status |-> 0, data |-> <<>>]
\* send_usdt_to_address has not been called by the handler, or has not returned
NoResult == [ok |-> FALSE, kind |-> "none", detail |-> <<>>]
NoCall == [sent |-> 0, outcome |-> "none", result |-> NoResult]

\* (StatusCode, Json(..)) of a handler
Reply(kind, st, data) == [kind |-> kind, status |-> st, data |-> data]

\* the handler of w is running
InFlight(w) == pc[w] \notin {"idle", "done"}

\* the handler of w returns: its locals are dropped, its result stays until
\* the response is sent
Return(w, r) ==
    /\ pc' = [pc EXCEPT ![w] = "done"]
    /\ loc' = [loc EXCEPT ![w] = NoLoc]
    /\ resp' = [resp EXCEPT ![w] = r]

\* identifiers a client has been told of: a user id is returned by create_user,
\* an account id is listed in its owner's accounts (get_user, get_user_accounts)
KnownUserIds ==
    {u \in DOMAIN users : \A w \in Workers :
        ~(req[w].op = "create_user" /\ pc[w] # "done" /\ loc[w].id = u)}
KnownAccountIds == UNION {Range(users[u].accounts) : u \in KnownUserIds}
\* Path(user_id), Path(account_id) of a request
UserIdInputs == KnownUserIds \cup {BogusUserId}
AccountIdInputs == KnownAccountIds \cup {BogusAccountId}

\* create_account handlers that have still to draw their account id
DrawingAccountId == {w \in Workers : pc[w] = "ca_check"}
\* the identifiers drawn so far, and those about to be
Issued == (nextUser - 1) + (nextAccount - 1) + (nextTxn - 1) + Cardinality(DrawingAccountId)

Init ==
    /\ users = EmptyMap
    /\ accounts = EmptyMap
    /\ transactions = EmptyMap
    /\ usersLock = Unlocked
    /\ accountsLock = Unlocked
    /\ transactionsLock = Unlocked
    /\ pc = [w \in Workers |-> "idle"]
    /\ req = [w \in Workers |-> NoReq]
    /\ loc = [w \in Workers |-> NoLoc]
    /\ resp = [w \in Workers |-> NoResp]
    /\ nextUser = 1
    /\ nextAccount = 1
    /\ nextTxn = 1
    /\ acked = [a \in AccountIds |-> 0]
    /\ call = [w \in Workers |-> NoCall]

\* the response is written to the connection; the worker takes the next request
Respond(w) ==
    /\ pc[w] = "done"
    /\ pc' = [pc EXCEPT ![w] = "idle"]
    /\ req' = [req EXCEPT ![w] = NoReq]
    /\ resp' = [resp EXCEPT ![w] = NoResp]
    /\ call' = [call EXCEPT ![w] = NoCall]
    /\ UNCHANGED <<store, locks, loc, ids, acked>>

\* ------------------------------------------------------------ create_user
\* main() serves requests only after with_contract() has succeeded
ContractClientConfigured == TRUE

\* "Basic Ethereum address validation"
WalletFormatOk(s) == s.prefix = "0x" /\ s.len = 42

\* users.values().any(|u| u.email == payload.email)
EmailTaken(us, email) == \E u \in DOMAIN us : us[u].email = email

\* users.values().any(|u| u.wallet_address.as_ref() == Some(wallet_address))
WalletTaken(us, wallet) ==
    \E s \in wallet : \E u \in DOMAIN us : us[u].wallet_address = {s}

NewUser(id, email, wallet) ==
    [id |-> id, email |-> email, wallet_address |-> wallet, accounts |-> <<>>]

\* the uuid is drawn, the wallet format is validated, users.read() is taken
CreateUserBegin(w, email, wallet) ==
    /\ pc[w] = "idle"
    /\ Issued < MaxRequests
    /\ nextUser' = nextUser + 1
    /\ req' = [req EXCEPT ![w] = [NoReq EXCEPT !.op = "create_user", !.email = email,
                                              !.wallet_address = wallet]]
    /\ IF \E s \in wallet : ~WalletFormatOk(s)
       THEN /\ Return(w, Reply("InvalidWalletAddress", 400, wallet))
            /\ UNCHANGED usersLock
       ELSE /\ CanRead(usersLock)
            /\ usersLock' = ReadLocked(usersLock, w)
            /\ pc' = [pc EXCEPT ![w] = "cu_check"]
            /\ loc' = [loc EXCEPT ![w] = [NoLoc EXCEPT !.id = nextUser]]
            /\ UNCHANGED resp
    /\ UNCHANGED <<store, accountsLock, transactionsLock, nextAccount, nextTxn, acked, call>>

\* the uniqueness checks, under the read lock
CreateUserCheck(w) ==
    /\ pc[w] = "cu_check"
    /\ usersLock' = ReadReleased(usersLock, w)
    /\ IF EmailTaken(users, req[w].email)
       THEN Return(w, Reply("UserAlreadyExists", 400, req[w].email))
       ELSE IF WalletTaken(users, req[w].wallet_address)
       THEN Return(w, Reply("InvalidWalletAddress", 400, req[w].wallet_address))
       ELSE /\ pc' = [pc EXCEPT ![w] = "cu_wait_write"]
            /\ UNCHANGED <<loc, resp>>
    /\ UNCHANGED <<store, accountsLock, transactionsLock, req, ids, acked, call>>

\* users.write()
CreateUserLock(w) ==
    /\ pc[w] = "cu_wait_write"
    /\ CanWrite(usersLock)
    /\ usersLock' = WriteLocked(usersLock, w)
    /\ pc' = [pc EXCEPT ![w] = "cu_insert"]
    /\ UNCHANGED <<store, accountsLock, transactionsLock, req, loc, resp, ids, acked, call>>

\* users.insert(user_id, user), then the balance query if there is a wallet
CreateUserInsert(w) ==
    LET user == NewUser(loc[w].id, req[w].email, req[w].wallet_address) IN
    /\ pc[w] = "cu_insert"
    /\ users' = MapInsert(users, loc[w].id, user)
    /\ usersLock' = WriteReleased(usersLock, w)
    /\ IF user.wallet_address # {} /\ ContractClientConfigured
       THEN /\ pc' = [pc EXCEPT ![w] = "cu_balance"]
            /\ UNCHANGED <<loc, resp>>
       ELSE Return(w, Reply("Ok", 200, user))
    /\ UNCHANGED <<accounts, transactions, accountsLock, transactionsLock, req, ids, acked, call>>

\* .parse::<Address>() of get_user_balance and send_usdt_to_address
ParsesAsAddress(s) == s.hex /\ s.len \in {40, 42}

\* what becomes of the getUserBalance call handed to the provider
BalanceOutcomes == {"Success", "Rejected", "Unavailable", "Timeout"}

\* Result<ContractUserBalance, OpenBankError>
BalanceOk == [ok |-> TRUE, kind |-> "Ok", detail |-> <<>>]
BalanceErr(kind, detail) == [ok |-> FALSE, kind |-> kind, detail |-> detail]

\* get_user_balance: the address is parsed, then every failure of
\* .call().await becomes a SmartContractError whose message quotes it
GetUserBalance(wallet, outcome) ==
    IF \E s \in wallet : ~ParsesAsAddress(s)
    THEN BalanceErr("InvalidWalletAddress", wallet)
    ELSE IF outcome = "Success" THEN BalanceOk
    ELSE BalanceErr("SmartContractError", <<"Failed to get user balance", outcome>>)

\* a registration that reports the failure of the balance query
CreateUserReplyPropagating(result, user) ==
    IF result.ok THEN Reply("Ok", 200, user)
    ELSE Reply(result.kind, 500, result.detail)

\* match ... { Ok(balance) => println!, Err(e) => println! }, then
\* Ok(ApiResponse { success: true, data: Some(user) })
CreateUserReply(result, user) == Reply("Ok", 200, user)

\* get_user_balance(wallet_address).await comes back, Ok or Err: both arms
\* only print, and the handler returns the user it built
CreateUserBalanceReturn(w) ==
    /\ pc[w] = "cu_balance"
    /\ \E outcome \in BalanceOutcomes :
          LET r == GetUserBalance(req[w].wallet_address, outcome) IN
          /\ call' = [call EXCEPT ![w].outcome = outcome, ![w].result = r]
          /\ Return(w, CreateUserReply(r, NewUser(loc[w].id, req[w].email,
                                                  req[w].wallet_address)))
    /\ UNCHANGED <<store, locks, req, ids, acked>>

\* create_user up to the insertion of the user
Register(w, emails, wallets) ==
    \/ \E email \in emails, wallet \in wallets : CreateUserBegin(w, email, wallet)
    \/ CreateUserCheck(w)
    \/ CreateUserLock(w)
    \/ CreateUserInsert(w)

CreateUser(w, emails, wallets) ==
    \/ Register(w, emails, wallets)
    \/ CreateUserBalanceReturn(w)

\* ------------------------------------------------------------ create_account
NewAccount(id, user_id, currency) ==
    [id |-> id, user_id |-> user_id, account_type |-> "Deposit", balance |-> 0,
     currency |-> currency]

\* the account id put in front of the ones the user has
PushAccountFront(us, user_id, account_id) ==
    IF user_id \in DOMAIN us
    THEN [us EXCEPT ![user_id].accounts = <<account_id>> \o @]
    ELSE us

\* user.accounts.push(account_id), if the user is there
PushAccount(us, user_id, account_id) ==
    IF user_id \in DOMAIN us
    THEN [us EXCEPT ![user_id].accounts = Append(@, account_id)]
    ELSE us

\* a lookup that finds every user
UserExistsAlways(us, user_id) == TRUE

\* users.contains_key(&user_id)
UserExists(us, user_id) == user_id \in DOMAIN us

\* users.read(), to validate that the user exists
CreateAccountBegin(w, user_id, currency) ==
    /\ pc[w] = "idle"
    /\ Issued < MaxRequests
    /\ CanRead(usersLock)
    /\ usersLock' = ReadLocked(usersLock, w)
    /\ req' = [req EXCEPT ![w] = [NoReq EXCEPT !.op = "create_account",
                                              !.user_id = user_id, !.currency = currency]]
    /\ pc' = [pc EXCEPT ![w] = "ca_check"]
    /\ UNCHANGED <<store, accountsLock, transactionsLock, loc, resp, ids, acked, call>>

\* users.contains_key(&user_id); then the account id is drawn
CreateAccountCheck(w) ==
    /\ pc[w] = "ca_check"
    /\ usersLock' = ReadReleased(usersLock, w)
    /\ IF ~UserExists(users, req[w].user_id)
       THEN /\ Return(w, Reply("UserNotFound", 404, req[w].user_id))
            /\ UNCHANGED nextAccount
       ELSE /\ nextAccount' = nextAccount + 1
            /\ pc' = [pc EXCEPT ![w] = "ca_wait_accounts"]
            /\ loc' = [loc EXCEPT ![w] = [NoLoc EXCEPT !.id = nextAccount]]
            /\ UNCHANGED resp
    /\ UNCHANGED <<store, accountsLock, transactionsLock, req, nextUser, nextTxn, acked, call>>

\* accounts.write()
CreateAccountLockAccounts(w) ==
    /\ pc[w] = "ca_wait_accounts"
    /\ CanWrite(accountsLock)
    /\ accountsLock' = WriteLocked(accountsLock, w)
    /\ pc' = [pc EXCEPT ![w] = "ca_insert"]
    /\ UNCHANGED <<store, usersLock, transactionsLock, req, loc, resp, ids, acked, call>>

\* the same step with the insertion left out
CreateAccountInsertSkipped(w) ==
    /\ pc[w] = "ca_insert"
    /\ accountsLock' = WriteReleased(accountsLock, w)
    /\ pc' = [pc EXCEPT ![w] = "ca_wait_users"]
    /\ UNCHANGED <<store, usersLock, transactionsLock, req, loc, resp, ids, acked, call>>

\* the same step with the accounts guard kept while the user is updated
CreateAccountInsertHolding(w) ==
    /\ pc[w] = "ca_insert"
    /\ accounts' = MapInsert(accounts, loc[w].id,
                             NewAccount(loc[w].id, req[w].user_id, req[w].currency))
    /\ pc' = [pc EXCEPT ![w] = "ca_wait_users"]
    /\ UNCHANGED <<users, transactions, locks, req, loc, resp, ids, acked, call>>

\* "Add account to state"
CreateAccountInsert(w) ==
    /\ pc[w] = "ca_insert"
    /\ accounts' = MapInsert(accounts, loc[w].id,
                             NewAccount(loc[w].id, req[w].user_id, req[w].currency))
    /\ accountsLock' = WriteReleased(accountsLock, w)
    /\ pc' = [pc EXCEPT ![w] = "ca_wait_users"]
    /\ UNCHANGED <<users, transactions, usersLock, transactionsLock, req, loc, resp, ids, acked, call>>

\* users.write()
CreateAccountLockUsers(w) ==
    /\ pc[w] = "ca_wait_users"
    /\ CanWrite(usersLock)
    /\ usersLock' = WriteLocked(usersLock, w)
    /\ pc' = [pc EXCEPT ![w] = "ca_push"]
    /\ UNCHANGED <<store, accountsLock, transactionsLock, req, loc, resp, ids, acked, call>>

\* "Add account to user"
CreateAccountPush(w) ==
    /\ pc[w] = "ca_push"
    /\ users' = PushAccount(users, req[w].user_id, loc[w].id)
    /\ usersLock' = WriteReleased(usersLock, w)
    /\ pc' = [pc EXCEPT ![w] = "ca_wait_transactions"]
    /\ UNCHANGED <<accounts, transactions, accountsLock, transactionsLock, req, loc, resp,
                   ids, acked, call>>

\* transactions.write()
CreateAccountLockTransactions(w) ==
    /\ pc[w] = "ca_wait_transactions"
    /\ CanWrite(transactionsLock)
    /\ transactionsLock' = WriteLocked(transactionsLock, w)
    /\ pc' = [pc EXCEPT ![w] = "ca_init"]
    /\ UNCHANGED <<store, usersLock, accountsLock, req, loc, resp, ids, acked, call>>

\* "Initialize transactions list"; the handler returns the account it built
CreateAccountInit(w) ==
    /\ pc[w] = "ca_init"
    /\ transactions' = MapInsert(transactions, loc[w].id, <<>>)
    /\ transactionsLock' = WriteReleased(transactionsLock, w)
    /\ Return(w, Reply("Ok", 200, NewAccount(loc[w].id, req[w].user_id, req[w].currency)))
    /\ UNCHANGED <<users, accounts, usersLock, accountsLock, req, ids, acked, call>>

CreateAccount(w) ==
    \/ \E user_id \in UserIdInputs, currency \in Currencies :
          CreateAccountBegin(w, user_id, currency)
    \/ CreateAccountCheck(w)
    \/ CreateAccountLockAccounts(w)
    \/ CreateAccountInsert(w)
    \/ CreateAccountLockUsers(w)
    \/ CreateAccountPush(w)
    \/ CreateAccountLockTransactions(w)
    \/ CreateAccountInit(w)

\* ------------------------------------------------------------ deposit
\* the validation with < in place of <=
AmountRejectedBelowZero(amount) == amount < 0

\* payload.amount <= 0.0
AmountRejected(amount) == amount <= 0

\* the balance overwritten by the amount
CreditedOverwrite(balance, amount) == amount

\* account.balance += payload.amount
Credited(balance, amount) == balance + amount

\* an upsert: the deposit opens the account it does not find
DepositApplyUpsert(accs, account_id, amount) ==
    IF account_id \in DOMAIN accs
    THEN [found |-> TRUE,
          accounts |-> [accs EXCEPT ![account_id].balance = @ + amount],
          balance_after |-> accs[account_id].balance + amount,
          user_id |-> accs[account_id].user_id]
    ELSE [found |-> TRUE,
          accounts |-> MapInsert(accs, account_id,
                          [id |-> account_id, user_id |-> 0, account_type |-> "Deposit",
                           balance |-> amount, currency |-> "USD"]),
          balance_after |-> amount,
          user_id |-> 0]

\* accounts.get_mut(&account_id): Some(account) credits it and yields
\* (account.balance, account.user_id), None is AccountNotFound
DepositApply(accs, account_id, amount) ==
    IF account_id \in DOMAIN accs
    THEN LET balance == Credited(accs[account_id].balance, amount) IN
         [found |-> TRUE,
          accounts |-> [accs EXCEPT ![account_id].balance = balance],
          balance_after |-> balance,
          user_id |-> accs[account_id].user_id]
    ELSE [found |-> FALSE, accounts |-> accs, balance_after |-> 0, user_id |-> 0]

NewTransaction(id, user_id, account_id, amount, balance_after) ==
    [id |-> id, user_id |-> user_id, account_id |-> account_id, amount |-> amount,
     transaction_type |-> "Deposit", balance_after |-> balance_after]

\* transactions.entry(account_id).or_default().push(transaction): the list is
\* made when the account has none
PushTransactionOrCreate(txs, account_id, t) ==
    IF account_id \in DOMAIN txs
    THEN [txs EXCEPT ![account_id] = Append(@, t)]
    ELSE MapInsert(txs, account_id, <<t>>)

\* the transaction inserted at the front of the list
PushTransactionFront(txs, account_id, t) ==
    IF account_id \in DOMAIN txs
    THEN [txs EXCEPT ![account_id] = <<t>> \o @]
    ELSE txs

\* account_transactions.push(transaction), if the account has a list
PushTransaction(txs, account_id, t) ==
    IF account_id \in DOMAIN txs
    THEN [txs EXCEPT ![account_id] = Append(@, t)]
    ELSE txs

\* the amount is validated, the transaction id is drawn, accounts.write() is taken
DepositBegin(w, account_id, amount) ==
    /\ pc[w] = "idle"
    /\ req' = [req EXCEPT ![w] = [NoReq EXCEPT !.op = "deposit",
                                              !.account_id = account_id, !.amount = amount]]
    /\ IF AmountRejected(amount)
       THEN /\ Return(w, Reply("InvalidAmount", 400, amount))
            /\ UNCHANGED <<accountsLock, nextTxn>>
       ELSE /\ Issued < MaxRequests
            /\ nextTxn' = nextTxn + 1
            /\ CanWrite(accountsLock)
            /\ accountsLock' = WriteLocked(accountsLock, w)
            /\ pc' = [pc EXCEPT ![w] = "dp_update"]
            /\ loc' = [loc EXCEPT ![w] = [NoLoc EXCEPT !.id = nextTxn]]
            /\ UNCHANGED resp
    /\ UNCHANGED <<store, usersLock, transactionsLock, nextUser, nextAccount, acked, call>>

\* "Update account balance and get user_id"
DepositUpdate(w) ==
    LET a == req[w].account_id
        r == DepositApply(accounts, a, req[w].amount) IN
    /\ pc[w] = "dp_update"
    /\ accountsLock' = WriteReleased(accountsLock, w)
    /\ accounts' = r.accounts
    /\ IF r.found
       THEN /\ loc' = [loc EXCEPT ![w].balance_after = r.balance_after,
                                  ![w].user_id = r.user_id]
            /\ pc' = [pc EXCEPT ![w] = "dp_wait_transactions"]
            /\ UNCHANGED resp
       ELSE Return(w, Reply("AccountNotFound", 404, a))
    /\ UNCHANGED <<users, transactions, usersLock, transactionsLock, req, ids, acked, call>>

\* transactions.write()
DepositLockTransactions(w) ==
    /\ pc[w] = "dp_wait_transactions"
    /\ CanWrite(transactionsLock)
    /\ transactionsLock' = WriteLocked(transactionsLock, w)
    /\ pc' = [pc EXCEPT ![w] = "dp_push"]
    /\ UNCHANGED <<store, usersLock, accountsLock, req, loc, resp, ids, acked, call>>

\* "Add transaction to history"; the handler returns the transaction it built
DepositPush(w) ==
    LET t == NewTransaction(loc[w].id, loc[w].user_id, req[w].account_id, req[w].amount,
                            loc[w].balance_after) IN
    /\ pc[w] = "dp_push"
    /\ transactions' = PushTransaction(transactions, req[w].account_id, t)
    /\ transactionsLock' = WriteReleased(transactionsLock, w)
    /\ Return(w, Reply("Ok", 200, t))
    /\ acked' = IF req[w].account_id \in AccountIds
                THEN [acked EXCEPT ![req[w].account_id] = @ + req[w].amount]
                ELSE acked
    /\ UNCHANGED <<users, accounts, usersLock, accountsLock, req, ids, call>>

Deposit(w) ==
    \/ \E account_id \in AccountIdInputs, amount \in Amounts :
          DepositBegin(w, account_id, amount)
    \/ DepositUpdate(w)
    \/ DepositLockTransactions(w)
    \/ DepositPush(w)

\* ------------------------------------------------------------ the readers
\* users.read() / accounts.read() / transactions.read() of a get_* handler
GetUserBegin(w, user_id) ==
    /\ pc[w] = "idle"
    /\ CanRead(usersLock)
    /\ usersLock' = ReadLocked(usersLock, w)
    /\ req' = [req EXCEPT ![w] = [NoReq EXCEPT !.op = "get_user", !.user_id = user_id]]
    /\ pc' = [pc EXCEPT ![w] = "gu_read"]
    /\ UNCHANGED <<store, accountsLock, transactionsLock, loc, resp, ids, acked, call>>

GetUserRead(w) ==
    /\ pc[w] = "gu_read"
    /\ usersLock' = ReadReleased(usersLock, w)
    /\ IF req[w].user_id \in DOMAIN users
       THEN Return(w, Reply("Ok", 200, users[req[w].user_id]))
       ELSE Return(w, Reply("UserNotFound", 404, req[w].user_id))
    /\ UNCHANGED <<store, accountsLock, transactionsLock, req, ids, acked, call>>

GetAccountBegin(w, account_id) ==
    /\ pc[w] = "idle"
    /\ CanRead(accountsLock)
    /\ accountsLock' = ReadLocked(accountsLock, w)
    /\ req' = [req EXCEPT ![w] = [NoReq EXCEPT !.op = "get_account",
                                              !.account_id = account_id]]
    /\ pc' = [pc EXCEPT ![w] = "ga_read"]
    /\ UNCHANGED <<store, usersLock, transactionsLock, loc, resp, ids, acked, call>>

GetAccountRead(w) ==
    /\ pc[w] = "ga_read"
    /\ accountsLock' = ReadReleased(accountsLock, w)
    /\ IF req[w].account_id \in DOMAIN accounts
       THEN Return(w, Reply("Ok", 200, accounts[req[w].account_id]))
       ELSE Return(w, Reply("AccountNotFound", 404, req[w].account_id))
    /\ UNCHANGED <<store, usersLock, transactionsLock, req, ids, acked, call>>

GetTransactionsBegin(w, account_id) ==
    /\ pc[w] = "idle"
    /\ CanRead(transactionsLock)
    /\ transactionsLock' = ReadLocked(transactionsLock, w)
    /\ req' = [req EXCEPT ![w] = [NoReq EXCEPT !.op = "get_transactions",
                                              !.account_id = account_id]]
    /\ pc' = [pc EXCEPT ![w] = "gt_read"]
    /\ UNCHANGED <<store, usersLock, accountsLock, loc, resp, ids, acked, call>>

GetTransactionsRead(w) ==
    /\ pc[w] = "gt_read"
    /\ transactionsLock' = ReadReleased(transactionsLock, w)
    /\ IF req[w].account_id \in DOMAIN transactions
       THEN Return(w, Reply("Ok", 200, transactions[req[w].account_id]))
       ELSE Return(w, Reply("AccountNotFound", 404, req[w].account_id))
    /\ UNCHANGED <<store, usersLock, accountsLock, req, ids, acked, call>>

\* user.accounts.iter().filter_map(|account_id| accounts.get(account_id).cloned())
RECURSIVE AccountsOf(_, _)
AccountsOf(account_ids, accs) ==
    IF account_ids = <<>> THEN <<>>
    ELSE (IF Head(account_ids) \in DOMAIN accs THEN <<accs[Head(account_ids)]>> ELSE <<>>)
         \o AccountsOf(Tail(account_ids), accs)

\* get_user_accounts takes users.read(), then accounts.read() while it holds the first
GetUserAccountsBegin(w, user_id) ==
    /\ pc[w] = "idle"
    /\ CanRead(usersLock)
    /\ usersLock' = ReadLocked(usersLock, w)
    /\ req' = [req EXCEPT ![w] = [NoReq EXCEPT !.op = "get_user_accounts",
                                              !.user_id = user_id]]
    /\ pc' = [pc EXCEPT ![w] = "gua_wait_accounts"]
    /\ UNCHANGED <<store, accountsLock, transactionsLock, loc, resp, ids, acked, call>>

GetUserAccountsLockAccounts(w) ==
    /\ pc[w] = "gua_wait_accounts"
    /\ CanRead(accountsLock)
    /\ accountsLock' = ReadLocked(accountsLock, w)
    /\ pc' = [pc EXCEPT ![w] = "gua_read"]
    /\ UNCHANGED <<store, usersLock, transactionsLock, req, loc, resp, ids, acked, call>>

GetUserAccountsRead(w) ==
    /\ pc[w] = "gua_read"
    /\ accountsLock' = ReadReleased(accountsLock, w)
    /\ usersLock' = ReadReleased(usersLock, w)
    /\ IF req[w].user_id \in DOMAIN users
       THEN Return(w, Reply("Ok", 200, AccountsOf(users[req[w].user_id].accounts, accounts)))
       ELSE Return(w, Reply("UserNotFound", 404, req[w].user_id))
    /\ UNCHANGED <<store, transactionsLock, req, ids, acked, call>>

Read(w) ==
    \/ \E user_id \in UserIdInputs : GetUserBegin(w, user_id)
    \/ GetUserRead(w)
    \/ \E account_id \in AccountIdInputs : GetAccountBegin(w, account_id)
    \/ GetAccountRead(w)
    \/ \E account_id \in AccountIdInputs : GetTransactionsBegin(w, account_id)
    \/ GetTransactionsRead(w)
    \/ \E user_id \in UserIdInputs : GetUserAccountsBegin(w, user_id)
    \/ GetUserAccountsLockAccounts(w)
    \/ GetUserAccountsRead(w)

\* ------------------------------------------------------------ withdraw_to_wallet
MinorUnitFactor == 1000000

\* (payload.amount * 1_000_000.0) as u64, on the whole amounts of the model
\* (the cast clamps a negative product to 0; no product here reaches 2^64)
ToMinorUnits(amount) ==
    LET x == amount * MinorUnitFactor IN
    IF x < 0 THEN 0 ELSE x

\* An amount with seven decimals is the whole number d of tenths of a minor
\* unit it holds: d stands for d / 10 minor units, d / 10^7 units of currency.
TenthsPerMinorUnit == 10
DecimalAmounts == (-2)..MaxTenths

\* `x as u64` on a product of x tenths: the fraction is dropped and a
\* negative value becomes 0 (no product here reaches 2^64, where the cast
\* clamps to u64::MAX)
AsU64(tenths) == IF tenths < 0 THEN 0 ELSE tenths \div TenthsPerMinorUnit

\* (payload.amount * 1_000_000.0) as u64 on an amount of d tenths of a minor
\* unit: the product is d / 10 minor units
ToMinorUnitsOfDecimal(d) == AsU64(d)

\* the same decisions without the wallet check
WithdrawCheckNoWallet(us, user_id, amount) ==
    IF user_id \notin DOMAIN us THEN "UserNotFound"
    ELSE IF AmountRejected(amount) THEN "InvalidAmount"
    ELSE IF \E s \in us[user_id].wallet_address : ~ParsesAsAddress(s)
    THEN "InvalidWalletAddress"
    ELSE "Send"

\* what withdraw_to_wallet decides before anything is sent, in the order of
\* the code: the user, the wallet, the amount, the client, the recipient
WithdrawCheck(us, user_id, amount) ==
    IF user_id \notin DOMAIN us THEN "UserNotFound"
    ELSE IF us[user_id].wallet_address = {} THEN "NoWalletAddress"
    ELSE IF AmountRejected(amount) THEN "InvalidAmount"
    ELSE IF ~ContractClientConfigured THEN "SmartContractError"
    ELSE IF \E s \in us[user_id].wallet_address : ~ParsesAsAddress(s)
    THEN "InvalidWalletAddress"
    ELSE "Send"

\* the errors withdraw_to_wallet builds itself: (status, payload)
WithdrawError(kind, us, user_id, amount) ==
    CASE kind = "UserNotFound" -> Reply(kind, 404, user_id)
      [] kind = "NoWalletAddress" -> Reply(kind, 400, <<>>)
      [] kind = "InvalidAmount" -> Reply(kind, 400, amount)
      [] kind = "SmartContractError" -> Reply(kind, 500, "not configured")

\* what becomes of a transaction handed to the provider: it is accepted, the
\* contract refuses it, the node cannot be reached, or the transport fails
\* after the request may have been delivered
SendOutcomes == {"Success", "Rejected", "Unavailable", "Timeout"}

\* Result<(), OpenBankError>
SendOk == [ok |-> TRUE, kind |-> "Ok", detail |-> <<>>]
SendErr(kind, detail) == [ok |-> FALSE, kind |-> kind, detail |-> detail]

\* a failure of the send reported with the variant of the parse failure
SendUsdtToAddressOneKind(wallet, outcome) ==
    IF \E s \in wallet : ~ParsesAsAddress(s) THEN SendErr("InvalidWalletAddress", wallet)
    ELSE IF outcome = "Success" THEN SendOk
    ELSE SendErr("InvalidWalletAddress", wallet)

\* send_usdt_to_address: the recipient is parsed, then every failure of
\* .send().await becomes a SmartContractError whose message quotes it
SendUsdtToAddress(wallet, outcome) ==
    IF \E s \in wallet : ~ParsesAsAddress(s) THEN SendErr("InvalidWalletAddress", wallet)
    ELSE IF outcome = "Success" THEN SendOk
    ELSE SendErr("SmartContractError", <<"Failed to send withdrawal transaction", outcome>>)

\* a handler that answers Ok whatever send_usdt_to_address returned
WithdrawReplyAlwaysOk(result, wallet) == Reply("Ok", 200, wallet)

\* .map_err(|e| (INTERNAL_SERVER_ERROR, Json(e)))?, else the Ok response
WithdrawReply(result, wallet) ==
    IF result.ok THEN Reply("Ok", 200, wallet)
    ELSE Reply(result.kind, 500, result.detail)

\* users.read(), "to check if they have a wallet address"
WithdrawBegin(w, user_id, amount) ==
    /\ pc[w] = "idle"
    /\ CanRead(usersLock)
    /\ usersLock' = ReadLocked(usersLock, w)
    /\ req' = [req EXCEPT ![w] = [NoReq EXCEPT !.op = "withdraw", !.user_id = user_id,
                                              !.amount = amount]]
    /\ pc' = [pc EXCEPT ![w] = "wd_lookup"]
    /\ UNCHANGED <<store, accountsLock, transactionsLock, loc, resp, ids, acked, call>>

\* the user and the wallet are resolved and the lock is dropped; the amount is
\* validated and converted; send_usdt_to_address is called: it parses the
\* recipient and hands the transaction to the provider
WithdrawValidate(w) ==
    LET u == req[w].user_id
        kind == WithdrawCheck(users, u, req[w].amount) IN
    /\ pc[w] = "wd_lookup"
    /\ usersLock' = ReadReleased(usersLock, w)
    /\ IF kind = "Send"
       THEN /\ pc' = [pc EXCEPT ![w] = "wd_send"]
            /\ loc' = [loc EXCEPT ![w] = [NoLoc EXCEPT
                           !.wallet_address = users[u].wallet_address,
                           !.amount_usdt = ToMinorUnits(req[w].amount)]]
            /\ call' = [call EXCEPT ![w].sent = @ + 1]
            /\ UNCHANGED resp
       ELSE IF kind = "InvalidWalletAddress"
       THEN LET r == SendUsdtToAddress(users[u].wallet_address, "Success") IN
            /\ call' = [call EXCEPT ![w].sent = @ + 1, ![w].result = r]
            /\ Return(w, WithdrawReply(r, users[u].wallet_address))
       ELSE /\ Return(w, WithdrawError(kind, users, u, req[w].amount))
            /\ UNCHANGED call
    /\ UNCHANGED <<store, accountsLock, transactionsLock, req, ids, acked>>

\* the same return, with the amount taken off the user's first account
WithdrawSendReturnDebit(w) ==
    /\ pc[w] = "wd_send"
    /\ \E outcome \in SendOutcomes :
          LET r == SendUsdtToAddress(loc[w].wallet_address, outcome)
              owned == users[req[w].user_id].accounts IN
          /\ call' = [call EXCEPT ![w].outcome = outcome, ![w].result = r]
          /\ Return(w, WithdrawReply(r, loc[w].wallet_address))
          /\ accounts' = IF r.ok /\ owned # <<>> /\ Head(owned) \in DOMAIN accounts
                         THEN [accounts EXCEPT ![Head(owned)].balance = @ - req[w].amount]
                         ELSE accounts
    /\ UNCHANGED <<users, transactions, locks, req, ids, acked>>

\* sendUSDTToAddress(...).send().await comes back
WithdrawSendReturn(w) ==
    /\ pc[w] = "wd_send"
    /\ \E outcome \in SendOutcomes :
          LET r == SendUsdtToAddress(loc[w].wallet_address, outcome) IN
          /\ call' = [call EXCEPT ![w].outcome = outcome, ![w].result = r]
          /\ Return(w, WithdrawReply(r, loc[w].wallet_address))
    /\ UNCHANGED <<store, locks, req, ids, acked>>

\* "Validate amount" and "Convert amount to USDT smallest unit" on a decimal
\* amount, for a user and a wallet that were resolved: the amount is refused
\* when it is not positive, else converted and handed to send_usdt_to_address
WithdrawConvert(w) ==
    /\ pc[w] = "wd_convert"
    /\ IF AmountRejected(req[w].amount)
       THEN /\ Return(w, Reply("InvalidAmount", 400, req[w].amount))
            /\ UNCHANGED call
       ELSE /\ pc' = [pc EXCEPT ![w] = "wd_send"]
            /\ loc' = [loc EXCEPT ![w] = [NoLoc EXCEPT
                           !.wallet_address = {WalletOk},
                           !.amount_usdt = ToMinorUnitsOfDecimal(req[w].amount)]]
            /\ call' = [call EXCEPT ![w].sent = @ + 1]
            /\ UNCHANGED resp
    /\ UNCHANGED <<store, locks, req, ids, acked>>

Withdraw(w) ==
    \/ \E user_id \in UserIdInputs, amount \in Amounts : WithdrawBegin(w, user_id, amount)
    \/ WithdrawValidate(w)
    \/ WithdrawSendReturn(w)

\* ------------------------------------------------------------ the service
\* Spec is the whole service.  The specifications after it are the service
\* with some handlers and some inputs left out, which keeps each of them
\* small enough to explore in full.
Next ==
    \E w \in Workers :
        \/ CreateUser(w, Emails, WalletOptions)
        \/ CreateAccount(w)
        \/ Deposit(w)
        \/ Read(w)
        \/ Withdraw(w)
        \/ Respond(w)

Spec == Init /\ [][Next]_vars

\* The ledger alone: users register without a wallet, nobody withdraws, and
\* the one reader is get_transactions.
LedgerNext ==
    \E w \in Workers :
        \/ Register(w, Emails, {{}})
        \/ CreateAccount(w)
        \/ Deposit(w)
        \/ \E account_id \in AccountIdInputs : GetTransactionsBegin(w, account_id)
        \/ GetTransactionsRead(w)
        \/ Respond(w)

LedgerSpec == Init /\ [][LedgerNext]_vars

\* Registration alone, with every kind of wallet address.
WalletNext ==
    \E w \in Workers :
        \/ CreateUser(w, Emails, WalletOptions)
        \/ Respond(w)

WalletSpec == Init /\ [][WalletNext]_vars

\* Withdrawals against accounts that hold no deposit: one email, so a second
\* registration is a duplicate or races the first.
WithdrawNext ==
    \E w \in Workers :
        \/ CreateUser(w, {"alice@example.com"}, WalletOptions)
        \/ CreateAccount(w)
        \/ Withdraw(w)
        \/ Respond(w)

WithdrawSpec == Init /\ [][WithdrawNext]_vars

\* Withdrawals requested for users without a wallet, against a ledger that
\* holds accounts and deposits: no withdrawal gets as far as the send.
NoWalletNext ==
    \E w \in Workers :
        \/ Register(w, {"alice@example.com"}, {{}})
        \/ CreateAccount(w)
        \/ Deposit(w)
        \/ \E user_id \in UserIdInputs, amount \in Amounts : WithdrawBegin(w, user_id, amount)
        \/ WithdrawValidate(w)
        \/ Respond(w)

NoWalletSpec == Init /\ [][NoWalletNext]_vars

\* Withdrawals against a ledger that holds accounts and deposits: every user
\* registers with one email and a well-formed wallet address.
SettlementNext ==
    \E w \in Workers :
        \/ CreateUser(w, {"alice@example.com"}, {{WalletOk}})
        \/ CreateAccount(w)
        \/ Deposit(w)
        \/ Withdraw(w)
        \/ Respond(w)

SettlementSpec == Init /\ [][SettlementNext]_vars

\* no other handler is running
Alone(w) == \A v \in Workers \ {w} : ~InFlight(v)

\* The ledger under a client that sends its requests one after another: a
\* handler starts only once the one before it has returned.
SequentialNext ==
    \E w \in Workers :
        /\ Alone(w)
        /\ \/ Register(w, Emails, {{}})
           \/ CreateAccount(w)
           \/ Deposit(w)
           \/ \E account_id \in AccountIdInputs : GetTransactionsBegin(w, account_id)
           \/ GetTransactionsRead(w)
           \/ Respond(w)

SequentialSpec == Init /\ [][SequentialNext]_vars

\* Every handler that works on the store alone, readers included; users
\* register with one email and no wallet.
StoreNext ==
    \E w \in Workers :
        \/ Register(w, {"alice@example.com"}, {{}})
        \/ CreateAccount(w)
        \/ Deposit(w)
        \/ Read(w)
        \/ Respond(w)

StoreSpec == Init /\ [][StoreNext]_vars

\* the steps a handler takes by itself once the runtime polls it: they wait
\* for nothing outside the process
HandlerStep(w) ==
    \/ CreateUserCheck(w)
    \/ CreateUserLock(w)
    \/ CreateUserInsert(w)
    \/ WithdrawValidate(w)
    \/ Respond(w)

\* Registration with a well-formed wallet and withdrawals, with the runtime's
\* scheduling: a handler that can step does step.  Nothing makes a request
\* arrive, and nothing makes the provider answer: the client is built by
\* Provider::<Http>::try_from(url) with no timeout, and no handler wraps its
\* await in one.
AwaitNext ==
    \E w \in Workers :
        \/ CreateUser(w, Emails, {{WalletOk}})
        \/ Withdraw(w)
        \/ Respond(w)

AwaitSpec ==
    /\ Init
    /\ [][AwaitNext]_vars
    /\ \A w \in Workers : WF_vars(HandlerStep(w))

\* The conversion of the amount alone: every handler starts past the lookup
\* of its user, with a decimal amount of its own.
ConversionInit ==
    /\ users = EmptyMap
    /\ accounts = EmptyMap
    /\ transactions = EmptyMap
    /\ usersLock = Unlocked
    /\ accountsLock = Unlocked
    /\ transactionsLock = Unlocked
    /\ pc = [w \in Workers |-> "wd_convert"]
    /\ req \in [Workers -> {[NoReq EXCEPT !.op = "withdraw", !.amount = d] :
                                d \in DecimalAmounts}]
    /\ loc = [w \in Workers |-> NoLoc]
    /\ resp = [w \in Workers |-> NoResp]
    /\ nextUser = 1
    /\ nextAccount = 1
    /\ nextTxn = 1
    /\ acked = [a \in AccountIds |-> 0]
    /\ call = [w \in Workers |-> NoCall]

ConversionNext ==
    \E w \in Workers :
        \/ WithdrawConvert(w)
        \/ WithdrawSendReturn(w)
        \/ Respond(w)

ConversionSpec == ConversionInit /\ [][ConversionNext]_vars

\* ============================================================ the claims
\* the handler of w takes a step
Steps(w) == pc'[w] # pc[w]

\* the transaction list of an account, empty when it has none
ListOf(a) == IF a \in DOMAIN transactions THEN transactions[a] ELSE <<>>

\* no CreateAccount and no RecordDeposit is in progress
Quiescent ==
    \A w \in Workers : req[w].op \in {"create_account", "deposit"} => ~InFlight(w)

\* C1: at any quiescent point, every account's balance equals the sum of the
\* amounts of the deposit transactions in the account's transaction list.
C1_BalanceIsSumOfTransactions ==
    Quiescent =>
        \A a \in DOMAIN accounts :
            accounts[a].balance =
                SumAmounts(SelectSeq(ListOf(a), LAMBDA t : t.transaction_type = "Deposit"))

\* deposits on account a that have credited the balance and not yet returned
Applied(a) ==
    {w \in Workers : /\ req[w].op = "deposit"
                     /\ req[w].account_id = a
                     /\ pc[w] \in {"dp_wait_transactions", "dp_push"}}

RECURSIVE SumOfRequests(_)
SumOfRequests(ws) ==
    IF ws = {} THEN 0
    ELSE LET w == CHOOSE x \in ws : TRUE IN req[w].amount + SumOfRequests(ws \ {w})

\* C2: no lost update: the balance of an account (0 when it was created) is
\* the sum of the amounts of all deposits on it that were answered Ok or
\* have credited it and are about to; with no deposit in flight it is the
\* sum of the amounts of the deposits answered Ok, under every interleaving.
C2_NoLostUpdate ==
    \A a \in DOMAIN accounts :
        accounts[a].balance = acked[a] + SumOfRequests(Applied(a))

\* two deposits on one account are in flight together, both past the update
C2_Witness ==
    \E a \in DOMAIN accounts :
        /\ Cardinality(Applied(a)) = 2
        /\ accounts[a].balance > MaxAmount

\* C3: no two stored users share an email, and of two concurrent CreateUser
\* calls with one email at most one is answered Ok.
C3_EmailsUnique ==
    /\ \A u1, u2 \in DOMAIN users : u1 # u2 => users[u1].email # users[u2].email
    /\ \A w1, w2 \in Workers :
          (/\ w1 # w2
           /\ pc[w1] = "done" /\ req[w1].op = "create_user"
           /\ pc[w2] = "done" /\ req[w2].op = "create_user"
           /\ req[w1].email = req[w2].email) =>
              ~(resp[w1].kind = "Ok" /\ resp[w2].kind = "Ok")

\* C4: no two stored users have the same (present) wallet address.
C4_WalletsUnique ==
    \A u1, u2 \in DOMAIN users :
        (u1 # u2 /\ users[u1].wallet_address # {}) =>
            users[u1].wallet_address # users[u2].wallet_address

NoLockHeld ==
    /\ usersLock = Unlocked
    /\ accountsLock = Unlocked
    /\ transactionsLock = Unlocked

\* account a is listed in some user's accounts
Listed(a) == \E u \in DOMAIN users : a \in Range(users[u].accounts)

\* C5: the three effects of CreateAccount are visible together: whenever the
\* collections can be read (no lock is held), an account is in the account
\* collection iff its owner lists it iff it has a transaction list.
C5_CreateAccountAtomic ==
    NoLockHeld =>
        \A a \in AccountIds :
            /\ (a \in DOMAIN accounts) = (a \in DOMAIN transactions)
            /\ (a \in DOMAIN accounts) = Listed(a)

\* the list is in application order: the k-th balance_after is the sum of the
\* first k amounts
InApplicationOrder(list) ==
    \A k \in 1..Len(list) : list[k].balance_after = SumAmounts(SubSeq(list, 1, k))

StrictlyIncreasing(list) ==
    \A k \in 1..(Len(list) - 1) : list[k].balance_after < list[k + 1].balance_after

\* C6: every list ListTransactions returns is in application order, with
\* balance_after strictly increasing along it.
C6_ListInApplicationOrder ==
    \A w \in Workers :
        (pc[w] = "done" /\ req[w].op = "get_transactions" /\ resp[w].kind = "Ok") =>
            /\ InApplicationOrder(resp[w].data)
            /\ StrictlyIncreasing(resp[w].data)

\* C7: RecordDeposit with amount <= 0 returns InvalidAmount, whether or not
\* the account exists, and leaves users, accounts and transactions unchanged.
C7_NonPositiveDepositRejected ==
    [][\A w \in Workers :
          (pc[w] = "idle" /\ req'[w].op = "deposit" /\ req'[w].amount <= 0) =>
              /\ pc'[w] = "done"
              /\ resp'[w].kind = "InvalidAmount"
              /\ resp'[w].status = 400
              /\ UNCHANGED store]_vars

\* a deposit of a non-positive amount on an existing account has been refused
C7_Witness ==
    \E w \in Workers :
        /\ pc[w] = "done"
        /\ req[w].op = "deposit"
        /\ req[w].amount <= 0
        /\ req[w].account_id \in DOMAIN accounts
        /\ accounts[req[w].account_id].balance > 0
        /\ resp[w].kind = "InvalidAmount"

\* C8: CreateAccount with a user id that is not in the user collection
\* returns NotFound and leaves users, accounts and transactions unchanged.
C8_CreateAccountUnknownUser ==
    [][\A w \in Workers :
          /\ (pc[w] = "idle" /\ req'[w].op = "create_account") => UNCHANGED store
          /\ (pc[w] = "ca_check" /\ req[w].user_id \notin DOMAIN users /\ Steps(w)) =>
                /\ pc'[w] = "done"
                /\ resp'[w].kind = "UserNotFound"
                /\ resp'[w].status = 404
                /\ UNCHANGED store]_vars

\* CreateAccount was refused for an unknown user while users are registered
C8_Witness ==
    \E w \in Workers :
        /\ pc[w] = "done"
        /\ req[w].op = "create_account"
        /\ req[w].user_id \notin DOMAIN users
        /\ users # EmptyMap
        /\ resp[w].kind = "UserNotFound"

\* C9: RecordDeposit with a positive amount on an account id that is not in
\* the account collection returns NotFound and leaves users, accounts and
\* transactions unchanged.
C9_DepositUnknownAccount ==
    [][\A w \in Workers :
          /\ (pc[w] = "idle" /\ req'[w].op = "deposit") => UNCHANGED store
          /\ (/\ pc[w] = "dp_update"
              /\ req[w].amount > 0
              /\ req[w].account_id \notin DOMAIN accounts
              /\ Steps(w)) =>
                /\ pc'[w] = "done"
                /\ resp'[w].kind = "AccountNotFound"
                /\ resp'[w].status = 404
                /\ UNCHANGED store]_vars

\* a positive deposit on an unknown account was refused while accounts exist
C9_Witness ==
    \E w \in Workers :
        /\ pc[w] = "done"
        /\ req[w].op = "deposit"
        /\ req[w].amount > 0
        /\ req[w].account_id \notin DOMAIN accounts
        /\ accounts # EmptyMap
        /\ resp[w].kind = "AccountNotFound"

\* C10: a withdrawal for an existing user without a wallet address fails with
\* NoWalletAddress, never reaches the SendFunds call, and leaves users,
\* accounts and transactions unchanged.
C10_WithdrawWithoutWallet ==
    [][\A w \in Workers :
          /\ (pc[w] = "idle" /\ req'[w].op = "withdraw") => UNCHANGED store
          /\ (/\ pc[w] = "wd_lookup"
              /\ req[w].user_id \in DOMAIN users
              /\ users[req[w].user_id].wallet_address = {}
              /\ Steps(w)) =>
                /\ pc'[w] = "done"
                /\ resp'[w].kind = "NoWalletAddress"
                /\ resp'[w].status = 400
                /\ UNCHANGED store]_vars

\* a withdrawal of a positive amount was refused for a user without a wallet
\* whose account holds a deposit
C10_Witness ==
    \E w \in Workers :
        /\ pc[w] = "done"
        /\ req[w].op = "withdraw"
        /\ req[w].amount > 0
        /\ req[w].user_id \in DOMAIN users
        /\ users[req[w].user_id].wallet_address = {}
        /\ \E a \in DOMAIN accounts :
              accounts[a].user_id = req[w].user_id /\ accounts[a].balance > 0
        /\ resp[w].kind = "NoWalletAddress"

\* C11: a withdrawal never mutates the local ledger, whatever its outcome: no
\* step of a withdrawal (its validation, the send, the return of the send
\* with success or with failure) changes the users, any account balance or
\* any transaction list.
C11_WithdrawalLeavesLedger ==
    [][\A w \in Workers :
          ((req[w].op = "withdraw" \/ req'[w].op = "withdraw") /\ Steps(w)) =>
              UNCHANGED store]_vars

\* one withdrawal was settled and another failed at the send, for a user
\* whose account holds a deposit with its transaction
C11_Witness ==
    \E w1, w2 \in Workers :
        /\ pc[w1] = "done" /\ req[w1].op = "withdraw" /\ resp[w1].kind = "Ok"
        /\ pc[w2] = "done" /\ req[w2].op = "withdraw"
        /\ resp[w2].kind = "SmartContractError"
        /\ \E a \in DOMAIN accounts :
              /\ accounts[a].user_id = req[w1].user_id
              /\ accounts[a].balance > 0
              /\ ListOf(a) # <<>>

\* the send of w's withdrawal ended in a transport failure after the request
\* may have been delivered
TimedOut(w) ==
    /\ pc[w] = "done"
    /\ req[w].op = "withdraw"
    /\ call[w].result.kind = "SmartContractError"
    /\ call[w].result.detail[2] = "Timeout"

\* what a withdrawal reports when the outcome of its send is known
KnownOutcomeKinds ==
    {WithdrawReply(SendUsdtToAddress({WalletOk}, o), {WalletOk}).kind :
        o \in SendOutcomes \ {"Timeout"}}

\* C12: when the outcome of the SendFunds call cannot be determined, the
\* withdrawal reports Uncertain, a kind that is neither the success nor one
\* of the failure kinds.
C12_UncertainReported ==
    \A w \in Workers :
        TimedOut(w) =>
            /\ resp[w].kind = "Uncertain"
            /\ resp[w].kind \notin KnownOutcomeKinds

\* the three validations of a withdrawal, on the request of w
PassedValidations(w) ==
    /\ req[w].amount > 0
    /\ req[w].user_id \in DOMAIN users
    /\ users[req[w].user_id].wallet_address # {}

\* C13 as stated: every withdrawal request whose amount is <= 0 fails with
\* InvalidAmount, and SendFunds is invoked only for requests that passed the
\* three validations (amount > 0, user exists, user has a wallet address).
C13_NonPositiveWithdrawalInvalidAmount ==
    \A w \in Workers :
        /\ (pc[w] = "done" /\ req[w].op = "withdraw" /\ req[w].amount <= 0) =>
              resp[w].kind = "InvalidAmount"
        /\ (req[w].op = "withdraw" /\ call[w].sent > 0) => PassedValidations(w)

\* C13 amended: a withdrawal request whose amount is <= 0 never invokes
\* SendFunds and fails with UserNotFound when the user is unknown, with
\* NoWalletAddress when the user has no wallet address, and with
\* InvalidAmount otherwise; SendFunds is invoked only for requests that
\* passed the three validations.
C13_NonPositiveWithdrawalRefused ==
    [][\A w \in Workers :
          /\ (pc[w] = "wd_lookup" /\ req[w].amount <= 0 /\ Steps(w)) =>
                /\ pc'[w] = "done"
                /\ call'[w].sent = 0
                /\ resp'[w].kind =
                      IF req[w].user_id \notin DOMAIN users THEN "UserNotFound"
                      ELSE IF users[req[w].user_id].wallet_address = {}
                      THEN "NoWalletAddress"
                      ELSE "InvalidAmount"
          /\ (call'[w].sent > call[w].sent) =>
                (req[w].op = "withdraw" /\ PassedValidations(w))]_vars

\* withdrawals of a non-positive amount were refused with InvalidAmount for
\* a user with a wallet and with UserNotFound for an unknown user
C13_Witness ==
    \E w1, w2 \in Workers :
        /\ pc[w1] = "done" /\ req[w1].op = "withdraw" /\ req[w1].amount <= 0
        /\ req[w1].user_id \in DOMAIN users
        /\ users[req[w1].user_id].wallet_address # {}
        /\ resp[w1].kind = "InvalidAmount"
        /\ pc[w2] = "done" /\ req[w2].op = "withdraw" /\ req[w2].amount <= 0
        /\ req[w2].user_id \notin DOMAIN users
        /\ resp[w2].kind = "UserNotFound"

\* the withdrawal of w has been answered
Answered(w) == pc[w] = "done" /\ req[w].op = "withdraw"

\* C14: a withdrawal attempt goes Requested -> Validated -> ExternalCallSent
\* -> terminal: it calls SendFunds at most once, and only as the step that
\* ends its validation; once the call is out its next step is its answer;
\* it answers Ok only if that one call returned Ok, and when the call failed
\* it answers exactly the error the call produced.
C14_WithdrawalStateMachine ==
    [][\A w \in Workers :
          /\ (call'[w].sent > call[w].sent) =>
                /\ pc[w] = "wd_lookup"
                /\ call[w].sent = 0
                /\ call'[w].sent = 1
          /\ (pc[w] = "wd_send" /\ Steps(w)) =>
                /\ pc'[w] = "done"
                /\ call'[w].sent = 1
          /\ Answered(w)' =>
                /\ (resp'[w].kind = "Ok") = (call'[w].sent = 1 /\ call'[w].result.ok)
                /\ (call'[w].sent = 1 /\ ~call'[w].result.ok) =>
                      /\ resp'[w].kind = call'[w].result.kind
                      /\ resp'[w].data = call'[w].result.detail]_vars

\* one withdrawal was settled and another answered the error of its send
C14_Witness ==
    \E w1, w2 \in Workers :
        /\ Answered(w1) /\ call[w1].sent = 1 /\ call[w1].result.ok
        /\ resp[w1].kind = "Ok"
        /\ Answered(w2) /\ call[w2].sent = 1 /\ ~call[w2].result.ok
        /\ resp[w2].kind = "SmartContractError"

\* C15: deposits applied one after another to a freshly created account: the
\* transaction returned by each has the amount of its request and, as
\* balance_after, the sum of the amounts deposited so far; it is appended at
\* the end of the account's list, nothing else changes a list, and
\* ListTransactions returns the list as it stands, in that order.
C15_SequentialDeposits ==
    [][\A w \in Workers :
          LET a == req[w].account_id IN
          /\ (pc[w] = "dp_push" /\ Steps(w)) =>
                /\ a \in DOMAIN transactions
                /\ resp'[w].kind = "Ok"
                /\ resp'[w].data.amount = req[w].amount
                /\ transactions'[a] = Append(transactions[a], resp'[w].data)
                /\ resp'[w].data.balance_after = SumAmounts(transactions'[a])
                /\ \A b \in DOMAIN transactions \ {a} : transactions'[b] = transactions[b]
          /\ (pc[w] # "dp_push" /\ Steps(w)) =>
                \A b \in DOMAIN transactions : transactions'[b] = transactions[b]
          /\ (pc[w] = "ca_init" /\ Steps(w)) => transactions'[loc[w].id] = <<>>
          /\ (pc[w] = "gt_read" /\ Steps(w) /\ a \in DOMAIN transactions) =>
                /\ resp'[w].kind = "Ok"
                /\ resp'[w].data = transactions[a]
                /\ InApplicationOrder(resp'[w].data)]_vars

\* deposits of 2 then 1 gave balance_after 2 then 3, and ListTransactions
\* returned the two transactions in that order
C15_Witness ==
    \E w \in Workers :
        /\ pc[w] = "done" /\ req[w].op = "get_transactions" /\ resp[w].kind = "Ok"
        /\ Len(resp[w].data) = 2
        /\ resp[w].data[1].amount = 2 /\ resp[w].data[1].balance_after = 2
        /\ resp[w].data[2].amount = 1 /\ resp[w].data[2].balance_after = 3

\* the kind of the error taxonomy that a variant of OpenBankError stands for:
\* InvalidWalletAddress is what a malformed address is answered with
TaxonomyKind(kind) ==
    CASE kind = "UserAlreadyExists" -> "DuplicateEmail"
      [] kind = "InvalidWalletAddress" -> "InvalidAddress"
      [] kind \in {"UserNotFound", "AccountNotFound"} -> "NotFound"
      [] OTHER -> kind

\* C16: CreateUser with an email that a stored user holds fails with
\* DuplicateEmail; with a fresh email and a wallet address that a stored user
\* holds it fails with DuplicateWallet; in both cases the users are
\* unchanged; a successful CreateUser inserts exactly one user, whose list
\* of accounts is empty.
C16_DuplicateUserRefused ==
    [][\A w \in Workers :
          /\ (pc[w] = "cu_check" /\ Steps(w) /\ EmailTaken(users, req[w].email)) =>
                /\ pc'[w] = "done"
                /\ TaxonomyKind(resp'[w].kind) = "DuplicateEmail"
                /\ UNCHANGED users
          /\ (/\ pc[w] = "cu_check" /\ Steps(w)
              /\ ~EmailTaken(users, req[w].email)
              /\ WalletTaken(users, req[w].wallet_address)) =>
                /\ pc'[w] = "done"
                /\ TaxonomyKind(resp'[w].kind) = "DuplicateWallet"
                /\ UNCHANGED users
          /\ (pc[w] = "cu_insert" /\ Steps(w)) =>
                /\ loc[w].id \notin DOMAIN users
                /\ DOMAIN users' = DOMAIN users \cup {loc[w].id}
                /\ users'[loc[w].id].accounts = <<>>
                /\ \A u \in DOMAIN users : users'[u] = users[u]]_vars

\* the balance_after of the last transaction of account a, 0 for an empty list
LastBalanceAfter(a) ==
    IF ListOf(a) = <<>> THEN 0 ELSE ListOf(a)[Len(ListOf(a))].balance_after

\* C17: the balance update and the transaction append of a deposit are one
\* step for readers: in every reachable state in which a reader can take the
\* accounts and the transactions locks, also between the lock scopes of a
\* deposit in flight, the stored balance of every account that has its list
\* is the balance_after of the last transaction in it (0 for an empty list).
C17_BalanceAndAppendAtomic ==
    (CanRead(accountsLock) /\ CanRead(transactionsLock)) =>
        \A a \in DOMAIN accounts \cap DOMAIN transactions :
            accounts[a].balance = LastBalanceAfter(a)

\* handler w holds lock l, as a reader or as the writer
HoldsLock(w, l) == l.writer = w \/ w \in l.readers

\* a settlement client call issued by w is outstanding: SendFunds of a
\* withdrawal, GetExternalBalance of a user creation
CallOutstanding(w) == pc[w] \in {"wd_send", "cu_balance"}

\* C18: no lock of the store (users, accounts, transactions) is held by a
\* handler while a settlement client call it issued is outstanding.
C18_NoLockDuringSettlementCall ==
    \A w \in Workers :
        CallOutstanding(w) =>
            /\ ~HoldsLock(w, usersLock)
            /\ ~HoldsLock(w, accountsLock)
            /\ ~HoldsLock(w, transactionsLock)

\* while the send of a withdrawal is outstanding, another handler holds the
\* users lock as its writer
C18_Witness ==
    \E w1, w2 \in Workers :
        /\ pc[w1] = "wd_send"
        /\ call[w1].sent = 1
        /\ w2 # w1
        /\ usersLock.writer = w2

\* the locks handler w holds
Held(w) ==
    {n \in {"users", "accounts", "transactions"} :
        HoldsLock(w, CASE n = "users" -> usersLock
                       [] n = "accounts" -> accountsLock
                       [] n = "transactions" -> transactionsLock)}

\* the lock the next step of handler w acquires
WaitsFor(w) ==
    CASE pc[w] \in {"cu_wait_write", "ca_wait_users"} -> "users"
      [] pc[w] \in {"ca_wait_accounts", "gua_wait_accounts"} -> "accounts"
      [] pc[w] \in {"ca_wait_transactions", "dp_wait_transactions"} -> "transactions"
      [] OTHER -> "none"

\* handler w waits for a lock it cannot have now
Blocked(w) ==
    \/ pc[w] \in {"cu_wait_write", "ca_wait_users"} /\ ~CanWrite(usersLock)
    \/ pc[w] = "ca_wait_accounts" /\ ~CanWrite(accountsLock)
    \/ pc[w] = "gua_wait_accounts" /\ ~CanRead(accountsLock)
    \/ pc[w] \in {"ca_wait_transactions", "dp_wait_transactions"}
          /\ ~CanWrite(transactionsLock)

\* C19: no interleaving deadlocks: a handler that holds a lock while it takes
\* another holds users and takes accounts, every other handler holds at
\* most one lock at a time, a handler at rest holds none, and every handler
\* that waits for a lock waits for one held by a handler that can step.
C19_NoDeadlock ==
    \A w \in Workers :
        /\ (WaitsFor(w) # "none" /\ Held(w) # {}) =>
              (Held(w) = {"users"} /\ WaitsFor(w) = "accounts")
        /\ Cardinality(Held(w)) > 1 => Held(w) = {"users", "accounts"}
        /\ ~InFlight(w) => Held(w) = {}
        /\ Blocked(w) =>
              \E v \in Workers \ {w} :
                  /\ WaitsFor(w) \in Held(v)
                  /\ InFlight(v)
                  /\ ~Blocked(v)

\* get_user_accounts holds the users lock and waits for the accounts lock,
\* which a deposit holds as its writer
C19_Witness ==
    \E w, v \in Workers :
        /\ pc[w] = "gua_wait_accounts"
        /\ Held(w) = {"users"}
        /\ Blocked(w)
        /\ pc[v] = "dp_update"
        /\ accountsLock.writer = v

\* the deposit of w on account a is inside one of its critical sections
InCriticalSection(w, a) ==
    /\ req[w].op = "deposit"
    /\ req[w].account_id = a
    /\ pc[w] \in {"dp_update", "dp_push"}

\* C20: deposits on different accounts do not block each other: while a
\* deposit on account a is inside a critical section, a deposit on another
\* account b can take the lock it needs next: accounts.write() when it
\* starts, transactions.write() when it has credited b.
C20_DepositsOnDifferentAccountsIndependent ==
    \A w, v \in Workers :
        \A a, b \in DOMAIN accounts :
            (w # v /\ a # b /\ InCriticalSection(w, a)) =>
                /\ pc[v] = "idle" => CanWrite(accountsLock)
                /\ (pc[v] = "dp_wait_transactions" /\ req[v].account_id = b) =>
                      CanWrite(transactionsLock)

\* the send of w's withdrawal failed at the settlement system
SettlementFailed(w) == Answered(w) /\ call[w].outcome \notin {"none", "Success"}

\* the request of w was refused by a validation
ValidationFailed(w) ==
    /\ pc[w] = "done"
    /\ req[w].op \in {"withdraw", "create_user"}
    /\ resp[w].kind # "Ok"
    /\ ~SettlementFailed(w)

\* kind and status of a response
Signal(r) == <<r.kind, r.status>>

\* the signals of the validation errors: those withdraw_to_wallet builds, the
\* unparsable recipient, and the refusals of create_user
ValidationSignals ==
    {Signal(WithdrawError(k, EmptyMap, BogusUserId, 0)) :
        k \in {"UserNotFound", "NoWalletAddress", "InvalidAmount"}}
    \cup {Signal(WithdrawReply(SendUsdtToAddress({WalletNotHex}, "Success"), {WalletNotHex}))}
    \cup {<<"InvalidWalletAddress", 400>>, <<"UserAlreadyExists", 400>>}

\* C21: in a withdrawal a settlement error is returned only after every
\* validation passed (the user exists, has a wallet address that parses, the
\* amount is positive, and the send was made), and its kind and status
\* differ from those of every validation error.
C21_SettlementErrorsApart ==
    \A w \in Workers :
        /\ SettlementFailed(w) =>
              /\ PassedValidations(w)
              /\ \A s \in users[req[w].user_id].wallet_address : ParsesAsAddress(s)
              /\ call[w].sent = 1
              /\ resp[w].kind # "Ok"
              /\ Signal(resp[w]) \notin ValidationSignals
        /\ ValidationFailed(w) => Signal(resp[w]) \in ValidationSignals

\* one withdrawal failed at the settlement system while another was refused
\* because the stored wallet address does not parse
C21_Witness ==
    \E w1, w2 \in Workers :
        /\ SettlementFailed(w1)
        /\ ValidationFailed(w2)
        /\ req[w2].op = "withdraw"
        /\ resp[w2].kind = "InvalidWalletAddress"

\* list old is a prefix of list new
IsPrefix(old, new) ==
    /\ Len(old) <= Len(new)
    /\ SubSeq(new, 1, Len(old)) = old

\* C22: the transaction list of an account is append-only: every step keeps
\* the list of every account that has one, with each transaction at its
\* position and with its id, amount, kind and balance_after, and at most
\* adds transactions at the end.
C22_ListsAppendOnly ==
    [][\A a \in DOMAIN transactions :
          /\ a \in DOMAIN transactions'
          /\ IsPrefix(transactions[a], transactions'[a])]_vars

\* an account holds two transactions and a deposit has just returned
C22_Witness ==
    \E a \in DOMAIN transactions :
        /\ Len(transactions[a]) = 2
        /\ \E w \in Workers : req[w].op = "deposit" /\ pc[w] = "done"
                              /\ resp[w].kind = "Ok"

\* C23: every withdrawal whose SendFunds call is out eventually reaches a
\* terminal outcome, also when the settlement system never answers.
C23_SentWithdrawalTerminates ==
    \A w \in Workers : (pc[w] = "wd_send") ~> (pc[w] = "done")

\* C24: the conversion to minor units is exact: whenever an amount is handed
\* to SendFunds it is a whole number of minor units and the value handed
\* over is that number (amount x 10^6); an amount that is not a whole number
\* of minor units is refused, not truncated and sent.
C24_ConversionExact ==
    \A w \in Workers :
        (req[w].op = "withdraw" /\ pc[w] = "wd_send") =>
            /\ req[w].amount % TenthsPerMinorUnit = 0
            /\ loc[w].amount_usdt * TenthsPerMinorUnit = req[w].amount

\* the step is one of worker w's, in a handler of operation op
StepOf(w, op) == Steps(w) /\ req'[w].op = op

\* everything of a user but the list of account ids
UserIdentity(u) == [id |-> u.id, email |-> u.email, wallet_address |-> u.wallet_address]

\* everything of an account but the balance
AccountIdentity(a) ==
    [id |-> a.id, user_id |-> a.user_id, account_type |-> a.account_type,
     currency |-> a.currency]

\* no user and no account is removed; a user changes only by an id appended
\* to account_ids; an account keeps its id, owner and currency
StoreOnlyGrows ==
    /\ \A u \in DOMAIN users :
          /\ u \in DOMAIN users'
          /\ UserIdentity(users'[u]) = UserIdentity(users[u])
          /\ IsPrefix(users[u].accounts, users'[u].accounts)
    /\ \A a \in DOMAIN accounts :
          /\ a \in DOMAIN accounts'
          /\ AccountIdentity(accounts'[a]) = AccountIdentity(accounts[a])

\* a step of deposit on account A leaves the users, every other account,
\* every other list and the sets of accounts and lists as they are
DepositFrame(w) ==
    LET A == req'[w].account_id IN
    /\ users' = users
    /\ DOMAIN accounts' = DOMAIN accounts
    /\ DOMAIN transactions' = DOMAIN transactions
    /\ \A a \in DOMAIN accounts \ {A} : accounts'[a] = accounts[a]
    /\ \A a \in DOMAIN transactions \ {A} : transactions'[a] = transactions[a]

\* a step of create_account for user U leaves every other user, every
\* account that exists and every list that exists as they are
CreateAccountFrame(w) ==
    LET U == req'[w].user_id IN
    /\ \A u \in DOMAIN users \ {U} : u \in DOMAIN users' /\ users'[u] = users[u]
    /\ \A a \in DOMAIN accounts : a \in DOMAIN accounts' /\ accounts'[a] = accounts[a]
    /\ \A a \in DOMAIN transactions :
          a \in DOMAIN transactions' /\ transactions'[a] = transactions[a]

\* C25: users and accounts are never removed; account_ids grows only by
\* appending at the end; an account's id, owner and currency never change;
\* a deposit on A changes only A's balance and A's list; create_account for
\* U changes no other user, no existing account and no existing list.
C25_FrameEffects ==
    [][/\ StoreOnlyGrows
       /\ \A w \in Workers :
             /\ StepOf(w, "deposit") => DepositFrame(w)
             /\ StepOf(w, "create_account") => CreateAccountFrame(w)]_vars

\* a user holds two accounts, the second appended after the first, and one
\* of them was credited by a deposit that has returned
C25_Witness ==
    \E u \in DOMAIN users :
        /\ Len(users[u].accounts) = 2
        /\ \E a \in Range(users[u].accounts) :
              a \in DOMAIN accounts /\ accounts[a].balance > 0
        /\ \E w \in Workers :
              req[w].op = "deposit" /\ pc[w] = "done" /\ resp[w].kind = "Ok"

\* the deposit of worker w has returned a transaction
DepositReturned(w) == req[w].op = "deposit" /\ pc[w] = "done" /\ resp[w].kind = "Ok"

\* the step is get_transactions of worker v returning the list of account a
ListReturned(v, a) ==
    /\ pc[v] = "gt_read"
    /\ req[v].account_id = a
    /\ pc'[v] = "done"
    /\ resp'[v].kind = "Ok"

\* C26: a transaction that deposit has returned is in the list that every
\* later get_transactions of the account returns, also when the deposit ran
\* while create_account was creating the account.
C26_ReturnedDepositListed ==
    [][\A w \in Workers, v \in Workers :
          (v # w /\ DepositReturned(w) /\ ListReturned(v, req[w].account_id)) =>
              resp[w].data \in Range(resp'[v].data)]_vars

\* every id in a user's account_ids names an account owned by that user, and
\* no id is there twice
AccountIdsResolve(u) ==
    LET owned == users[u].accounts IN
    /\ \A i \in 1..Len(owned) :
          owned[i] \in DOMAIN accounts /\ accounts[owned[i]].user_id = u
    /\ \A i, j \in 1..Len(owned) : i # j => owned[i] # owned[j]

\* every transaction in the list of account a carries a and a's owner
TransactionsResolve(a) ==
    \A i \in 1..Len(transactions[a]) :
        /\ transactions[a][i].account_id = a
        /\ a \in DOMAIN accounts
        /\ transactions[a][i].user_id = accounts[a].user_id

\* C27: in every reachable state, those between the lock scopes of a
\* create_account included, every id in a user's account_ids names an
\* existing account of that user and occurs once, every account's owner is
\* an existing user, and every stored transaction carries the id of the
\* account it is listed under and the user id of that account's owner.
C27_ReferentialIntegrity ==
    /\ \A u \in DOMAIN users : AccountIdsResolve(u)
    /\ \A a \in DOMAIN accounts : accounts[a].user_id \in DOMAIN users
    /\ \A a \in DOMAIN transactions : TransactionsResolve(a)

\* a create_account has inserted its account and not yet added it to the
\* user, who already holds an account with a transaction in its list
C27_Witness ==
    \E w \in Workers :
        /\ pc[w] = "ca_wait_users"
        /\ loc[w].id \in DOMAIN accounts
        /\ \E a \in Range(users[req[w].user_id].accounts) :
              a \in DOMAIN transactions /\ Len(transactions[a]) > 0

\* create_user of worker w has returned after its balance query came back
RegisteredAfterQuery(w) ==
    /\ req[w].op = "create_user"
    /\ pc[w] = "done"
    /\ call[w].outcome # "none"

\* the user that create_user built for the request of w is in the store
\* under the id u
StoredAsBuilt(w, u) ==
    /\ u \in DOMAIN users
    /\ users[u] = NewUser(u, req[w].email, req[w].wallet_address)

\* C28: the outcome of the balance query of create_user never affects the
\* registration: the user is in the store while the query is out, and
\* whatever the query returns, create_user answers Ok with that user, who
\* is still stored.
C28_BalanceQueryLeavesRegistration ==
    \A w \in Workers :
        /\ (req[w].op = "create_user" /\ pc[w] = "cu_balance") =>
              StoredAsBuilt(w, loc[w].id)
        /\ RegisteredAfterQuery(w) =>
              /\ resp[w].kind = "Ok"
              /\ resp[w].status = 200
              /\ StoredAsBuilt(w, resp[w].data.id)
              /\ resp[w].data = users[resp[w].data.id]

\* two registrations have returned Ok, one after a balance query that
\* succeeded and one after a balance query that failed
C28_Witness ==
    \E w1, w2 \in Workers :
        /\ RegisteredAfterQuery(w1) /\ call[w1].result.ok
        /\ RegisteredAfterQuery(w2) /\ ~call[w2].result.ok
        /\ resp[w1].kind = "Ok" /\ resp[w2].kind = "Ok"

====
